---- MODULE Spec2Model ----
(***************************************************************************)
(* Text-to-packet encoder of idotmatrix/modules/text.py (class Text).      *)
(*                                                                         *)
(* Byte strings (bytes, bytearray) are sequences of integers 0..255.       *)
(* A monochrome image is a function from <<x, y>> to the value getpixel    *)
(* returns for a mode "1" image: 0 (off) or 255 (on).                      *)
(* A call that can raise returns [raised |-> name, value |-> v]; raised is *)
(* "none" when the call returned v.                                        *)
(*                                                                         *)
(* Four specifications share the variables:                                *)
(*   Spec         one call of Text.setMode, from the text to the return    *)
(*   SpecChunker  _splitIntoChunks on arbitrary packets and chunk sizes    *)
(*   SpecFramer   _buildStringPacket on arbitrary bitmap sequences         *)
(*   SpecPacker   _ConstructBitMap on arbitrary 16x32 windows              *)
(***************************************************************************)
EXTENDS Integers, Sequences, FiniteSets, TLC

VARIABLES
    pc,            \* position in the operation under way
    text,          \* setMode's text: a sequence of characters
    font,          \* what ImageFont.truetype(font_path, font_size) gives
    cfg,           \* text_mode, speed, colour modes and colours
    conn,          \* truth value of self.conn
    text_bitmaps,  \* the byte stream _StringToBitmaps returned
    padded_width,  \* width of full_image in _StringToBitmaps
    data,          \* the packet _buildStringPacket returned
    chunk_size,    \* second argument of _splitIntoChunks
    chunks,        \* the list _splitIntoChunks returned
    idx,           \* 1-based position of the for loop over chunks
    calls,         \* calls the transport has seen, in order, with their outcome
    raised,        \* the exception that ended the operation, "none" if none
    result,        \* what the operation returned
    image,         \* the window handed to _ConstructBitMap
    bitmap         \* the bytes _ConstructBitMap returned

vars == <<pc, text, font, cfg, conn, text_bitmaps, padded_width, data,
          chunk_size, chunks, idx, calls, raised, result, image, bitmap>>

(***************************************************************************)
(* Bounds of the model.                                                    *)
(***************************************************************************)
\* longest text handed to setMode
MaxTextLen == 2
\* longest packet handed to _splitIntoChunks on its own
MaxPacketLen == 6
\* largest chunk size handed to _splitIntoChunks on its own
MaxChunkSize == 4
\* most blocks in a bitmap sequence handed to _buildStringPacket on its own
MaxBlocks == 2
\* a block count whose packet no longer fits the 2-byte total_len field
ManyBlocks == 964

(***************************************************************************)
(* Python built-ins used by the code.                                      *)
(***************************************************************************)
Min(a, b) == IF a <= b THEN a ELSE b

Ok(v) == [raised |-> "none", value |-> v]

Raise(name) == [raised |-> name, value |-> <<>>]

\* s[i : j] for 0 <= i <= j: the slice stops at the end of s
Slice(s, i, j) == SubSeq(s, i + 1, Min(j, Len(s)))

\* range(start, stop, step) for step >= 1, as the sequence it iterates
range(start, stop, step) ==
    LET members == {i \in start..(stop - 1) : (i - start) % step = 0}
    IN [k \in 1..Cardinality(members) |-> start + (k - 1) * step]

\* the concatenation of the sequences ss[lo..hi], in order
RECURSIVE ConcatRange(_, _, _)
ConcatRange(ss, lo, hi) ==
    IF lo > hi THEN <<>>
    ELSE IF lo = hi THEN ss[lo]
    ELSE LET mid == (lo + hi) \div 2
         IN ConcatRange(ss, lo, mid) \o ConcatRange(ss, mid + 1, hi)

Concat(ss) == ConcatRange(ss, 1, Len(ss))

\* int.to_bytes(n, byteorder="little"): OverflowError when v needs more bytes
RECURSIVE LittleEndian(_, _)
LittleEndian(v, n) ==
    IF n = 0 THEN <<>> ELSE <<v % 256>> \o LittleEndian(v \div 256, n - 1)

RECURSIVE Pow256(_)
Pow256(n) == IF n = 0 THEN 1 ELSE 256 * Pow256(n - 1)

\* (a 4-byte field holds every length the model can build)
to_bytes(v, n) ==
    IF v < 0 \/ (n < 4 /\ v >= Pow256(n)) THEN Raise("OverflowError")
    ELSE Ok(LittleEndian(v, n))

\* the value a little-endian field holds
RECURSIVE FromLittleEndian(_)
FromLittleEndian(s) ==
    IF s = <<>> THEN 0 ELSE Head(s) + 256 * FromLittleEndian(Tail(s))

\* bitwise exclusive or of two naturals
RECURSIVE XorBits(_, _)
XorBits(a, b) ==
    IF a = 0 THEN b
    ELSE IF b = 0 THEN a
    ELSE ((a + b) % 2) + 2 * XorBits(a \div 2, b \div 2)

\* one CRC-32 register (as <<low 16 bits, high 16 bits>>) shifted k bits with
\* the reflected IEEE polynomial 0xEDB88320 = <<33568, 60856>>
RECURSIVE CrcBitStep(_, _)
CrcBitStep(c, k) ==
    IF k = 0 THEN c
    ELSE LET sh == <<(c[1] \div 2) + (c[2] % 2) * 32768, c[2] \div 2>>
         IN CrcBitStep(IF c[1] % 2 = 1
                        THEN <<XorBits(sh[1], 33568), XorBits(sh[2], 60856)>>
                        ELSE sh, k - 1)

\* zlib's table, each entry as its 4 bytes, low byte first
CrcTable ==
    [n \in 0..255 |->
        LET c == CrcBitStep(<<n, 0>>, 8)
        IN <<c[1] % 256, c[1] \div 256, c[2] % 256, c[2] \div 256>>]

\* the register (4 bytes, low first) after byte b
CrcByte(c, b) ==
    LET t == CrcTable[XorBits(c[1], b)]
    IN <<XorBits(t[1], c[2]), XorBits(t[2], c[3]), XorBits(t[3], c[4]), t[4]>>

\* the register after bytes s[lo..hi]; the left half is evaluated before the
\* right half is entered
RECURSIVE CrcUpdate(_, _, _, _)
CrcUpdate(c, s, lo, hi) ==
    IF lo > hi THEN c
    ELSE IF lo = hi THEN CrcByte(c, s[lo])
    ELSE LET mid == (lo + hi) \div 2
             left == CrcUpdate(c, s, lo, mid)
         IN IF left[1] >= 0 THEN CrcUpdate(left, s, mid + 1, hi) ELSE left

\* zlib.crc32(s).to_bytes(4, byteorder="little")
crc32(s) ==
    LET c == CrcUpdate(<<255, 255, 255, 255>>, s, 1, Len(s))
    IN [i \in 1..4 |-> 255 - c[i]]

\* bytes.count(sub): occurrences of sub in s found left to right, the search
\* resuming after each occurrence.  st = <<next position to search, count>>
CountStep(st, s, sub, i) ==
    IF i >= st[1] /\ i + Len(sub) - 1 <= Len(s) /\ SubSeq(s, i, i + Len(sub) - 1) = sub
    THEN <<i + Len(sub), st[2] + 1>>
    ELSE st

RECURSIVE CountScan(_, _, _, _, _)
CountScan(st, s, sub, lo, hi) ==
    IF lo > hi THEN st
    ELSE IF lo = hi THEN CountStep(st, s, sub, lo)
    ELSE LET mid == (lo + hi) \div 2
             left == CountScan(st, s, sub, lo, mid)
         IN IF left[2] >= 0 THEN CountScan(left, s, sub, mid + 1, hi) ELSE left

count(s, sub) == CountScan(<<1, 0>>, s, sub, 1, Len(s))[2]

(***************************************************************************)
(* Text._splitIntoChunks                                                   *)
(***************************************************************************)
\* mutant: the short final chunk is dropped
SplitWholeChunksOnly(d, n) ==
    [k \in 1..(Len(d) \div n) |-> SubSeq(d, (k - 1) * n + 1, k * n)]

_splitIntoChunks(d, n) ==
    LET starts == range(0, Len(d), n)
    IN [k \in 1..Len(starts) |-> Slice(d, starts[k], starts[k] + n)]

(***************************************************************************)
(* Text._ConstructBitMap                                                   *)
(***************************************************************************)
\* class attribute separator
separator == <<5, 255, 255, 255>>

getpixel(img, x, y) == img[<<x, y>>]

RECURSIVE Pow2(_)
Pow2(k) == IF k = 0 THEN 1 ELSE 2 * Pow2(k - 1)

\* mutant: the first pixel of a byte lands in its most significant bit
RECURSIVE PackByteMsbFirst(_, _, _, _)
PackByteMsbFirst(img, y, x0, k) ==
    IF k = 0 THEN 0
    ELSE LET x == x0 + k - 1
         IN PackByteMsbFirst(img, y, x0, k - 1) + (img[<<x, y>>] % 2) * Pow2(7 - (x % 8))

\* the value of byte after the inner loop has run x = x0 .. x0 + 7 of row y:
\* byte |= (pixel & 1) << (x % 8), starting from byte = 0 at x % 8 == 0
RECURSIVE PackByte(_, _, _, _)
PackByte(img, y, x0, k) ==
    IF k = 0 THEN 0
    ELSE LET x == x0 + k - 1
         IN PackByte(img, y, x0, k - 1) + (getpixel(img, x, y) % 2) * Pow2(x % 8)

\* bitmap.append(byte) happens at x = 7 and x = 15 of each row y = 0 .. 31
_ConstructBitMap(img) ==
    [j \in 1..64 |-> PackByte(img, (j - 1) \div 2, 8 * ((j - 1) % 2), 8)]

(***************************************************************************)
(* Text._StringToBitmaps                                                   *)
(***************************************************************************)
\* characters of the model's texts
Chars == {" ", "#", "%"}

\* ImageDraw.text((0, 0), c, fill=1, font=font): whether the font inks pixel
\* (x, y) of c's cell.  The rendering is the font's; three glyphs stand for it:
\* " " inks nothing, "#" inks its whole cell, and "%" inks two dots and a bar
\* in its first row and a bar in its second.
Ink(c, x, y) ==
    CASE c = "#" -> TRUE
      [] c = "%" -> \/ y = 0 /\ (x \in {0, 2} \/ x \in 8..15)
                    \/ y = 1 /\ x \in 0..15
      [] OTHER -> FALSE

\* char_image = Image.new("1", (char_width, 32), 0) with c drawn on it
CharImage(c, char_width) ==
    [p \in (0..(char_width - 1)) \X (0..31) |-> IF Ink(c, p[1], p[2]) THEN 255 ELSE 0]

\* total_width after the loop over the first n characters
RECURSIVE TotalWidth(_, _)
TotalWidth(n, char_width) ==
    IF n = 0 THEN 0 ELSE TotalWidth(n - 1, char_width) + char_width

\* mutant: a width that is a multiple of 16 is padded by 16 more
PaddedWidthAlwaysPads(total_width) == total_width + (16 - (total_width % 16))

\* padded_width = total_width + (-total_width % 16)
PaddedWidth(total_width) == total_width + ((-total_width) % 16)

\* full_image after every char_images[i] was pasted at (i * width, y): a pixel
\* outside every pasted cell keeps the background 0
FullImage(char_images, pw, width, y) ==
    [p \in (0..(pw - 1)) \X (0..31) |->
        LET i == (p[1] \div width) + 1
            cy == p[2] - y
        IN IF i <= Len(char_images) /\ cy \in 0..31
           THEN char_images[i][<<p[1] - (i - 1) * width, cy>>]
           ELSE 0]

\* full_image.crop((left, 0, left + 16, 32))
crop(img, left) == [p \in (0..15) \X (0..31) |-> img[<<left + p[1], p[2]>>]]

\* bytestream after the loop over results[1..k]
RECURSIVE ByteStream(_, _)
ByteStream(results, k) ==
    IF k = 0 THEN <<>>
    ELSE ByteStream(results, k - 1) \o separator \o results[k]

\* mutant: an empty list of cells is accepted
FirstCellSizeUnchecked(char_images, char_width) == Ok(<<char_width, 32>>)

\* width, height = char_images[0].size: IndexError on an empty list
FirstCellSize(char_images, char_width) ==
    IF Len(char_images) = 0 THEN Raise("IndexError") ELSE Ok(<<char_width, 32>>)

_StringToBitmaps(t, f) ==
    IF ~f.ok THEN Raise("OSError")
    ELSE
    LET char_width == f.char_width
        char_height == f.char_height
        char_images == [i \in 1..Len(t) |-> CharImage(t[i], char_width)]
        total_width == TotalWidth(Len(t), char_width)
        pw == PaddedWidth(total_width)
        size == FirstCellSize(char_images, char_width)
    IN  IF size.raised # "none" THEN size
        ELSE
        LET width == size.value[1]
            y == 16 - (char_height \div 2)
            full_image == FullImage(char_images, pw, width, y)
            lefts == range(0, pw, 16)
            results == [k \in 1..Len(lefts) |-> _ConstructBitMap(crop(full_image, lefts[k]))]
        IN Ok([stream |-> ByteStream(results, Len(results)), padded_width |-> pw])

(***************************************************************************)
(* Text._buildStringPacket                                                 *)
(***************************************************************************)
IsByte(v) == v \in 0..255

\* the sixteen header bytes before the length and checksum fields are set
HeaderTemplate == <<0, 0, 3, 0, 0, 0, 0, 0, 0, 0, 0, 0, 0, 0, 0, 12>>

_buildStringPacket(bitmaps, c) ==
    LET num_chars == count(bitmaps, separator)
        fields == <<0, 0, 0, 1, c.text_mode, c.speed, c.text_color_mode>>
                  \o c.text_color \o <<c.text_bg_mode>> \o c.text_bg_color
        count_bytes == to_bytes(num_chars, 2)
        text_metadata == count_bytes.value \o SubSeq(fields, 3, Len(fields))
        packet == text_metadata \o bitmaps
        header == HeaderTemplate
        total_len == Len(packet) + Len(header)
        total_bytes == to_bytes(total_len, 2)
        len_bytes == to_bytes(Len(packet), 4)
    IN  IF \E i \in 1..Len(fields) : ~IsByte(fields[i]) THEN Raise("ValueError")
        ELSE IF count_bytes.raised # "none" THEN count_bytes
        ELSE IF total_bytes.raised # "none" THEN total_bytes
        ELSE Ok(total_bytes.value \o SubSeq(header, 3, 5) \o len_bytes.value
                \o crc32(packet) \o SubSeq(header, 14, 16) \o packet)

(***************************************************************************)
(* Text.setMode                                                            *)
(***************************************************************************)
\* chunk size setMode hands to _splitIntoChunks
ChunkSize == 512

Pending == [tag |-> "pending", value |-> <<>>]
ReturnFalse == [tag |-> "False", value |-> <<>>]
ReturnData(d) == [tag |-> "data", value |-> d]

\* the defaults of setMode's parameters
DefaultConfig ==
    [text_mode |-> 1, speed |-> 95, text_color_mode |-> 1, text_color |-> <<255, 0, 0>>,
     text_bg_mode |-> 0, text_bg_color |-> <<0, 255, 0>>]

\* configurations setMode is called with: the defaults, another display mode,
\* and a speed that is no byte
Configs ==
    {DefaultConfig, [DefaultConfig EXCEPT !.text_mode = 8],
     [DefaultConfig EXCEPT !.speed = 256]}

\* texts of at most MaxTextLen characters
Texts == UNION {[1..n -> Chars] : n \in 0..MaxTextLen}

\* <<char_width, char_height>> of the fonts and sizes of the model
FontMetrics == {<<8, 16>>, <<10, 12>>, <<16, 32>>, <<120, 40>>}

\* a font file that cannot be loaded, and the loadable ones
Fonts ==
    {[ok |-> FALSE, char_width |-> 0, char_height |-> 0]}
    \cup {[ok |-> TRUE, char_width |-> m[1], char_height |-> m[2]] : m \in FontMetrics}

Idle ==
    /\ text_bitmaps = <<>>
    /\ padded_width = 0
    /\ data = <<>>
    /\ chunks = <<>>
    /\ idx = 0
    /\ calls = <<>>
    /\ raised = "none"
    /\ result = Pending
    /\ image = <<>>
    /\ bitmap = <<>>

Init ==
    /\ pc = "raster"
    /\ text \in Texts
    /\ font \in Fonts
    /\ cfg \in Configs
    /\ conn \in BOOLEAN
    /\ chunk_size = ChunkSize
    /\ Idle

\* except BaseException as error: log it, return False
Except(name) ==
    /\ raised' = name
    /\ result' = ReturnFalse
    /\ pc' = "done"

\* return data
Return ==
    /\ result' = ReturnData(data')
    /\ pc' = "done"

\* the argument text_bitmaps=self._StringToBitmaps(...) is evaluated first
Rasterize ==
    /\ pc = "raster"
    /\ LET r == _StringToBitmaps(text, font)
       IN IF r.raised # "none"
          THEN /\ Except(r.raised)
               /\ UNCHANGED <<text_bitmaps, padded_width>>
          ELSE /\ text_bitmaps' = r.value.stream
               /\ padded_width' = r.value.padded_width
               /\ pc' = "frame"
               /\ UNCHANGED <<raised, result>>
    /\ UNCHANGED <<text, font, cfg, conn, data, chunk_size, chunks, idx, calls, image, bitmap>>

\* data = self._buildStringPacket(...); if self.conn: ... else return data
Frame ==
    /\ pc = "frame"
    /\ LET p == _buildStringPacket(text_bitmaps, cfg)
       IN IF p.raised # "none"
          THEN /\ Except(p.raised)
               /\ UNCHANGED data
          ELSE /\ data' = p.value
               /\ IF conn
                  THEN pc' = "connect" /\ UNCHANGED <<raised, result>>
                  ELSE Return /\ UNCHANGED raised
    /\ UNCHANGED <<text, font, cfg, conn, text_bitmaps, padded_width, chunk_size, chunks,
                   idx, calls, image, bitmap>>

Call(op, d) == [op |-> op, data |-> d, status |-> "pending"]

\* the call under way ends with status st
Complete(st) == calls' = [calls EXCEPT ![Len(calls)].status = st]

\* ways an awaited transport call can end other than by returning
Failures == {"TransportError", "CancelledError"}

\* await self.conn.connect(): the call is issued
ConnectCall ==
    /\ pc = "connect"
    /\ calls' = Append(calls, Call("connect", <<>>))
    /\ pc' = "connecting"
    /\ UNCHANGED <<text, font, cfg, conn, text_bitmaps, padded_width, data, chunk_size,
                   chunks, idx, raised, result, image, bitmap>>

\* connect() returned: chunks = self._splitIntoChunks(data, 512), the loop starts
ConnectReturn ==
    /\ pc = "connecting"
    /\ Complete("ok")
    /\ chunks' = _splitIntoChunks(data, chunk_size)
    /\ idx' = 1
    /\ UNCHANGED data
    /\ IF chunks' = <<>> THEN Return ELSE pc' = "send" /\ UNCHANGED result
    /\ UNCHANGED <<text, font, cfg, conn, text_bitmaps, padded_width, chunk_size,
                   raised, image, bitmap>>

\* mutant: a failure of connect() is swallowed and the chunks are sent
ConnectRaiseIgnored ==
    /\ pc = "connecting"
    /\ \E e \in Failures : Complete(e)
    /\ chunks' = _splitIntoChunks(data, chunk_size)
    /\ idx' = 1
    /\ pc' = "send"
    /\ UNCHANGED <<text, font, cfg, conn, text_bitmaps, padded_width, data, chunk_size,
                   raised, result, image, bitmap>>

\* connect() raised or the task was cancelled while it waited
ConnectRaise ==
    /\ pc = "connecting"
    /\ \E e \in Failures :
        /\ Complete(e)
        /\ Except(e)
    /\ UNCHANGED <<text, font, cfg, conn, text_bitmaps, padded_width, data, chunk_size,
                   chunks, idx, image, bitmap>>

\* mutant: every send carries the whole packet
SendCallWholePacket ==
    /\ pc = "send"
    /\ calls' = Append(calls, Call("send", data))
    /\ pc' = "sending"
    /\ UNCHANGED <<text, font, cfg, conn, text_bitmaps, padded_width, data, chunk_size,
                   chunks, idx, raised, result, image, bitmap>>

\* await self.conn.send(data=chunk): the call is issued
SendCall ==
    /\ pc = "send"
    /\ calls' = Append(calls, Call("send", chunks[idx]))
    /\ pc' = "sending"
    /\ UNCHANGED <<text, font, cfg, conn, text_bitmaps, padded_width, data, chunk_size,
                   chunks, idx, raised, result, image, bitmap>>

\* send() returned: the loop goes on, or ends and setMode returns data
SendReturn ==
    /\ pc = "sending"
    /\ Complete("ok")
    /\ idx' = idx + 1
    /\ UNCHANGED data
    /\ IF idx' > Len(chunks) THEN Return ELSE pc' = "send" /\ UNCHANGED result
    /\ UNCHANGED <<text, font, cfg, conn, text_bitmaps, padded_width, chunk_size,
                   chunks, raised, image, bitmap>>

\* mutant: a failed send is swallowed and the loop goes on
SendRaiseContinue ==
    /\ pc = "sending"
    /\ \E e \in Failures : Complete(e)
    /\ idx' = idx + 1
    /\ UNCHANGED data
    /\ IF idx' > Len(chunks) THEN Return ELSE pc' = "send" /\ UNCHANGED result
    /\ UNCHANGED <<text, font, cfg, conn, text_bitmaps, padded_width, chunk_size,
                   chunks, raised, image, bitmap>>

\* send() raised or the task was cancelled while it waited
SendRaise ==
    /\ pc = "sending"
    /\ \E e \in Failures :
        /\ Complete(e)
        /\ Except(e)
    /\ UNCHANGED <<text, font, cfg, conn, text_bitmaps, padded_width, data, chunk_size,
                   chunks, idx, image, bitmap>>

Next ==
    \/ Rasterize
    \/ Frame
    \/ ConnectCall
    \/ ConnectReturn
    \/ ConnectRaise
    \/ SendCall
    \/ SendReturn
    \/ SendRaise

Spec == Init /\ [][Next]_vars

(***************************************************************************)
(* _splitIntoChunks on its own: every packet of at most MaxPacketLen bytes *)
(* and the 600-byte packet, every chunk size up to MaxChunkSize and 512.   *)
(***************************************************************************)
ScenarioPacket == [i \in 1..600 |-> i % 256]

Packets == UNION {[1..n -> {0, 255}] : n \in 0..MaxPacketLen} \cup {ScenarioPacket}

InitChunker ==
    /\ pc = "split"
    /\ data \in Packets
    /\ chunk_size \in (1..MaxChunkSize) \cup {ChunkSize}
    /\ text = <<>>
    /\ font = [ok |-> FALSE, char_width |-> 0, char_height |-> 0]
    /\ cfg = DefaultConfig
    /\ conn = FALSE
    /\ text_bitmaps = <<>>
    /\ padded_width = 0
    /\ chunks = <<>>
    /\ idx = 0
    /\ calls = <<>>
    /\ raised = "none"
    /\ result = Pending
    /\ image = <<>>
    /\ bitmap = <<>>

Split ==
    /\ pc = "split"
    /\ chunks' = _splitIntoChunks(data, chunk_size)
    /\ pc' = "done"
    /\ UNCHANGED <<text, font, cfg, conn, text_bitmaps, padded_width, data, chunk_size,
                   idx, calls, raised, result, image, bitmap>>

NextChunker == Split

SpecChunker == InitChunker /\ [][NextChunker]_vars

(***************************************************************************)
(* _buildStringPacket on its own: bitmap sequences of at most MaxBlocks    *)
(* blocks of any content, one of ManyBlocks blocks, every configuration.   *)
(***************************************************************************)
\* 64-byte blocks: blank, all ink, the rows 05 FF / FF FF at its top, the same
\* bytes one byte further, and a lone 05
Blocks ==
    {[j \in 1..64 |-> 0],
     [j \in 1..64 |-> 255],
     [j \in 1..64 |-> IF j = 1 THEN 5 ELSE IF j \in 2..4 THEN 255 ELSE 0],
     [j \in 1..64 |-> IF j = 2 THEN 5 ELSE IF j \in 3..5 THEN 255 ELSE 0],
     [j \in 1..64 |-> IF j = 64 THEN 5 ELSE 0]}

\* separator + block, once per block, in block order
RECURSIVE Serialize(_, _)
Serialize(blocks, k) ==
    IF k = 0 THEN <<>> ELSE Serialize(blocks, k - 1) \o separator \o blocks[k]

\* n blank blocks, each after its separator
BlankSequence(n) ==
    [i \in 1..(68 * n) |->
        IF i % 68 = 1 THEN 5 ELSE IF i % 68 \in 2..4 THEN 255 ELSE 0]

BitmapSequences ==
    {Serialize(bs, Len(bs)) : bs \in UNION {[1..n -> Blocks] : n \in 0..MaxBlocks}}

FramerConfigs ==
    Configs \cup {[DefaultConfig EXCEPT !.text_color = <<0, 0, 255>>, !.text_bg_mode = 1],
                  [DefaultConfig EXCEPT !.text_color_mode = 5, !.speed = 0]}

InitFramer ==
    /\ pc = "build"
    /\ \/ text_bitmaps \in BitmapSequences /\ cfg \in FramerConfigs
       \/ text_bitmaps = BlankSequence(ManyBlocks) /\ cfg = DefaultConfig
    /\ text = <<>>
    /\ font = [ok |-> FALSE, char_width |-> 0, char_height |-> 0]
    /\ conn = FALSE
    /\ chunk_size = ChunkSize
    /\ padded_width = 0
    /\ data = <<>>
    /\ chunks = <<>>
    /\ idx = 0
    /\ calls = <<>>
    /\ raised = "none"
    /\ result = Pending
    /\ image = <<>>
    /\ bitmap = <<>>

BuildPacket ==
    /\ pc = "build"
    /\ LET p == _buildStringPacket(text_bitmaps, cfg)
       IN /\ raised' = p.raised
          /\ data' = p.value
    /\ pc' = "done"
    /\ UNCHANGED <<text, font, cfg, conn, text_bitmaps, padded_width, chunk_size, chunks,
                   idx, calls, result, image, bitmap>>

NextFramer == BuildPacket

SpecFramer == InitFramer /\ [][NextFramer]_vars

(***************************************************************************)
(* _ConstructBitMap on its own: the windows with one pixel on, those with  *)
(* one pixel off, the blank and the full window.                           *)
(***************************************************************************)
Pixels == (0..15) \X (0..31)

Windows ==
    {[p \in Pixels |-> IF p = q THEN 255 ELSE 0] : q \in Pixels}
    \cup {[p \in Pixels |-> IF p = q THEN 0 ELSE 255] : q \in Pixels}
    \cup {[p \in Pixels |-> 0], [p \in Pixels |-> 255]}

InitPacker ==
    /\ pc = "pack"
    /\ image \in Windows
    /\ text = <<>>
    /\ font = [ok |-> FALSE, char_width |-> 0, char_height |-> 0]
    /\ cfg = DefaultConfig
    /\ conn = FALSE
    /\ chunk_size = ChunkSize
    /\ text_bitmaps = <<>>
    /\ padded_width = 0
    /\ data = <<>>
    /\ chunks = <<>>
    /\ idx = 0
    /\ calls = <<>>
    /\ raised = "none"
    /\ result = Pending
    /\ bitmap = <<>>

Pack ==
    /\ pc = "pack"
    /\ bitmap' = _ConstructBitMap(image)
    /\ pc' = "done"
    /\ UNCHANGED <<text, font, cfg, conn, text_bitmaps, padded_width, data, chunk_size,
                   chunks, idx, calls, raised, result, image>>

NextPacker == Pack

SpecPacker == InitPacker /\ [][NextPacker]_vars

(***************************************************************************)
(* Claims                                                                  *)
(***************************************************************************)
\* ceil(a / b) for a >= 0, b >= 1: the least q with q * b >= a
CeilDiv(a, b) == CHOOSE q \in 0..a : q * b >= a /\ (q = 0 \/ (q - 1) * b < a)

\* C4: for every packet P and chunk size n >= 1 the chunks of
\* _splitIntoChunks(P, n) concatenate in list order to P, each chunk has
\* between 1 and n bytes, each but the last exactly n, there are ceil(len(P)/n)
\* of them (600 bytes at n = 512: 512 and 88), and none only when P is empty.
C4_ChunksPartitionPacket ==
    pc = "done" =>
        /\ Concat(chunks) = data
        /\ \A k \in 1..Len(chunks) : Len(chunks[k]) \in 1..chunk_size
        /\ \A k \in 1..(Len(chunks) - 1) : Len(chunks[k]) = chunk_size
        /\ Len(chunks) = CeilDiv(Len(data), chunk_size)
        /\ (chunks = <<>>) <=> (data = <<>>)
        /\ (Len(data) = 600 /\ chunk_size = 512) =>
               [k \in 1..Len(chunks) |-> Len(chunks[k])] = <<512, 88>>

\* a packet was split into several chunks, the last one shorter
C4_Witness ==
    /\ pc = "done"
    /\ Len(chunks) >= 2
    /\ Len(chunks[Len(chunks)]) < chunk_size

\* C10: for every 16x32 window _ConstructBitMap returns 64 bytes, byte
\* 2*y + b holding row y's columns 8*b .. 8*b + 7, bit k (0 the least
\* significant) set exactly when the pixel at column 8*b + k is on.
C10_BitmapLayout ==
    pc = "done" =>
        /\ Len(bitmap) = 64
        /\ \A y \in 0..31 : \A b \in 0..1 : \A k \in 0..7 :
               ((bitmap[2 * y + b + 1] \div Pow2(k)) % 2 = 1)
                   <=> (image[<<8 * b + k, y>>] # 0)

\* the window with only pixel (10, 3) on was packed: bit 2 of byte 7
C10_Witness ==
    /\ pc = "done"
    /\ image = [p \in Pixels |-> IF p = <<10, 3>> THEN 255 ELSE 0]
    /\ bitmap[8] = 4

\* the fields of a packet
TotalLenField(d) == FromLittleEndian(SubSeq(d, 1, 2))
BodyLenField(d) == FromLittleEndian(SubSeq(d, 6, 9))
GlyphCountField(d) == FromLittleEndian(SubSeq(d, 17, 18))
Body(d) == SubSeq(d, 17, Len(d))

\* C5: for every bitmap sequence of (separator + 64-byte block) records, with
\* any block contents, the glyph_count field _buildStringPacket writes equals
\* the number of blocks of the sequence.
C5_GlyphCountIsBlockCount ==
    (pc = "done" /\ raised = "none") =>
        GlyphCountField(data) = Len(text_bitmaps) \div 68

\* mode, speed, colour modes and RGB values are all bytes
ConfigIsBytes(c) ==
    /\ \A v \in {c.text_mode, c.speed, c.text_color_mode, c.text_bg_mode} : v \in 0..255
    /\ \A i \in 1..3 : c.text_color[i] \in 0..255 /\ c.text_bg_color[i] \in 0..255

\* C7: for every bitmap sequence and every configuration of byte values
\* _buildStringPacket returns a packet without raising, and the total_len
\* field of that packet equals 16 + len(body).
C7_FramerTotal ==
    (pc = "done" /\ ConfigIsBytes(cfg)) =>
        /\ raised = "none"
        /\ TotalLenField(data) = 16 + Len(Body(data))
        /\ Body(data) = SubSeq(Body(data), 1, 14) \o text_bitmaps

\* the chunks handed to send(), in call order
SentChunks ==
    LET sends == SelectSeq(calls, LAMBDA c : c.op = "send")
    IN [k \in 1..Len(sends) |-> sends[k].data]

IsPrefix(a, b) == Len(a) <= Len(b) /\ a = SubSeq(b, 1, Len(a))

\* the chunk sequence of the packet (none while no packet is built)
PacketChunks == _splitIntoChunks(data, ChunkSize)

\* C1: with a usable connection the transport sees connect() once and before
\* any send(), then one send() per chunk in the order the chunker produced
\* them, each issued only after the call before it completed; when setMode
\* returns the packet, the chunks handed to send() concatenate to it.
C1_ConnectThenChunksInOrder ==
    /\ \A i \in 1..Len(calls) : (calls[i].op = "connect") <=> (i = 1)
    /\ \A i \in 1..(Len(calls) - 1) : calls[i].status = "ok"
    /\ \A i \in 2..Len(calls) : i - 1 <= Len(chunks) /\ calls[i].data = chunks[i - 1]
    /\ (conn /\ data # <<>> /\ pc # "connect") => Len(calls) >= 1
    /\ (conn /\ result.tag = "data") =>
           /\ Len(calls) = 1 + Len(chunks)
           /\ Concat(SentChunks) = result.value
           /\ result.value = data

\* setMode returned a packet of several chunks after sending them all
C1_Witness ==
    /\ conn
    /\ pc = "done"
    /\ result.tag = "data"
    /\ Len(SentChunks) >= 3

\* C2 as claimed: when setMode has ended, the chunks handed to the transport
\* are none or the complete chunk sequence of the packet, never a proper
\* non-empty prefix of it.
C2_NoPartialPacket ==
    pc = "done" => (SentChunks = <<>> \/ SentChunks = PacketChunks)

\* C2 as amended: the chunks handed to the transport are always a prefix of
\* the packet's chunk sequence; it is empty when rasterizing, framing or
\* connect() failed, complete when setMode returns the packet over a usable
\* connection, and a proper non-empty prefix only after a send() failed or was
\* cancelled, in which case setMode returns False.
C2_PartialOnlyAfterFailedSend ==
    /\ IsPrefix(SentChunks, PacketChunks)
    /\ pc = "done" =>
        /\ raised \in {"OSError", "IndexError", "ValueError", "OverflowError"}
               => SentChunks = <<>>
        /\ (calls # <<>> /\ calls[1].status \in Failures) => SentChunks = <<>>
        /\ (conn /\ result.tag = "data") => SentChunks = PacketChunks
        /\ (SentChunks # <<>> /\ SentChunks # PacketChunks) =>
               /\ calls[Len(calls)].op = "send"
               /\ calls[Len(calls)].status \in Failures
               /\ result = ReturnFalse

\* the first chunk was delivered, the send of the second failed
C2_Witness ==
    /\ pc = "done"
    /\ Len(SentChunks) = 2
    /\ Len(PacketChunks) >= 3
    /\ calls[2].status = "ok"
    /\ calls[3].status = "TransportError"

\* C3: a failure or cancellation of connect() or of a send() is the last call
\* setMode makes, and setMode then returns False; it returns the packet only
\* when connect() and every send() completed without error.
C3_FailureEndsOperation ==
    /\ \A i \in 1..Len(calls) :
           calls[i].status \in Failures =>
               /\ i = Len(calls)
               /\ pc = "done"
               /\ raised = calls[i].status
               /\ result = ReturnFalse
    /\ result.tag = "data" =>
           /\ \A i \in 1..Len(calls) : calls[i].status = "ok"
           /\ conn => Len(SentChunks) = Len(PacketChunks) /\ calls[1].op = "connect"

\* the send of the second of three chunks was cancelled
C3_Witness ==
    /\ pc = "done"
    /\ Len(calls) = 3
    /\ Len(chunks) = 3
    /\ calls[3].status = "CancelledError"
    /\ result = ReturnFalse

\* C6: in every packet _buildStringPacket makes of a sequence made by
\* _StringToBitmaps, body_len equals 14 + 4*glyph_count + 64*glyph_count for
\* the glyph_count stored in that packet.
C6_BodyLenFromGlyphCount ==
    data # <<>> =>
        BodyLenField(data) = 14 + 4 * GlyphCountField(data) + 64 * GlyphCountField(data)

\* _StringToBitmaps returned
Rasterized == pc # "raster" /\ raised \notin {"OSError", "IndexError"}

\* C8: for a text of n >= 1 characters and cell width W >= 1 the strip is
\* ceil(n*W/16)*16 wide, a multiple of 16 that is at least n*W and less than
\* n*W + 16, and width/16 (separator + block) records are emitted.
C8_StripWidthAndBlockCount ==
    (Rasterized /\ Len(text) >= 1 /\ font.char_width >= 1) =>
        LET nW == Len(text) * font.char_width
        IN /\ padded_width = CeilDiv(nW, 16) * 16
           /\ padded_width % 16 = 0
           /\ padded_width >= nW
           /\ padded_width < nW + 16
           /\ Len(text_bitmaps) = 68 * (padded_width \div 16)
           /\ \A k \in 1..(padded_width \div 16) :
                  SubSeq(text_bitmaps, 68 * (k - 1) + 1, 68 * (k - 1) + 4) = separator

\* one character in a cell 10 wide: a strip 16 wide, one record
C8_Witness ==
    /\ Rasterized
    /\ Len(text) = 1
    /\ font.char_width = 10
    /\ padded_width = 16
    /\ Len(text_bitmaps) = 68

\* C9: with the empty text the operation fails in _StringToBitmaps, before
\* _buildStringPacket is entered: no packet is built, connect() and send()
\* are never called, and setMode does not return packet bytes.
C9_EmptyTextFailsInRasterizer ==
    text = <<>> =>
        /\ pc \in {"raster", "done"}
        /\ pc = "done" =>
               /\ raised \in {"OSError", "IndexError"}
               /\ result = ReturnFalse
        /\ text_bitmaps = <<>>
        /\ data = <<>>
        /\ calls = <<>>
        /\ result.tag # "data"

\* the empty text was rasterized with a loadable font and setMode has ended
C9_Witness ==
    /\ text = <<>>
    /\ font.ok
    /\ pc = "done"
    /\ raised = "IndexError"

====
